---- MODULE Spec2Model ----
(***************************************************************************)
(* Model of the contract-bearing parts of the repository:                  *)
(*   - perform_graph_abstract (ai_scientist/perform_graph_abstract.py):    *)
(*     the bounded generate / compile / critique / revise loop;            *)
(*   - query and _setup_openai_client                                      *)
(*     (ai_scientist/treesearch/backend/backend_openai.py): one model      *)
(*     call with client caching, retry and forced function calls;          *)
(*   - the section loop of generate_full_writeup.py.                       *)
(* Text (model replies, prompts, files) is a sequence of tokens:           *)
(*   "F" the fence ```      "L" the marker latex     "D" the phrase         *)
(*   I am done              "W" whitespace           "T" prose              *)
(*   "X","Y" artifact text  "E" a chktex warning     "P" the seed prompt    *)
(*   "R" the fixed text of the reflection prompt.                           *)
(***************************************************************************)
EXTENDS Integers, Sequences, FiniteSets, TLC

VARIABLES
    \* ---- perform_graph_abstract ----
    pc,              \* position in perform_graph_abstract
    no_generation,   \* argument no_generation
    n_reflections,   \* argument n_reflections
    i,               \* number of loop rounds started (for i in range(...))
    compile_attempt, \* local compile_attempt
    msg_history,     \* local msg_history: sequence of [role, content]
    response,        \* latest reply (response / reflection_response)
    ga_exists,       \* graphical_abstract/graphical_abstract.tex exists
    ga_file,         \* content of graphical_abstract.tex
    current_latex,   \* local current_latex
    check_output,    \* local check_output (chktex text)
    compile_status,  \* how the latest pdflatex runs ended
    pdf_produced,    \* latest compile_tikz_standalone found a generated PDF
    final_pdf,       \* <base>_graphical_abstract_final.pdf exists
    base_pdf,        \* <base>_graphical_abstract.pdf exists
    result,          \* returned flag: "none" until the function returns
    exit,            \* which return statement was taken
    llm_calls,       \* get_response_from_llm calls issued
    compile_calls,   \* compile_tikz_standalone calls issued
    \* ---- backend_openai ----
    client,          \* module global _client
    current_model,   \* module global _current_model
    env,             \* credentials present in os.environ
    q_pc,            \* position in query
    model,           \* model_kwargs.get("model", "")
    func_spec,       \* argument func_spec
    attempts,        \* calls of create made by backoff_create in this query
    inner_retries,   \* resends made inside the current create call
    provider_calls,  \* requests that reached the provider in this query
    failures,        \* failures the provider answered in this query, in order
    completion,      \* the completion returned by backoff_create
    output,          \* the value query returns
    q_error,         \* the exception query raised, "none" otherwise
    queries,         \* query calls made so far
    built_for,       \* the models openai.OpenAI(...) was constructed for
    \* ---- token_tracker and save_token_tracker ----
    u_pc,              \* per recording session: "pending" or "recorded"
    u_calls,           \* per recording session: the token counts of its call
    prompt_total,      \* cumulative prompt tokens
    completion_total,  \* cumulative completion tokens
    interactions,      \* the log of per-call records
    save_pc,           \* position in save_token_tracker
    saved_summary,     \* content of token_tracker.json
    saved_interactions, \* content of token_tracker_interactions.json
    \* ---- sessions calling query on the shared module globals ----
    t_pc,            \* per session: position in query / _setup_openai_client
    t_used,          \* per session: the client read at the call site
    t_queries,       \* per session: query calls made so far
    \* ---- generate_full_writeup.main ----
    w_pc,            \* position in main
    w_idx,           \* index in section_order of the section to generate
    sections,        \* dict sections: section name -> text
    w_current_latex, \* local current_latex of main
    w_document,      \* content of latex/template.tex
    w_exit           \* how main ended

svars == <<pc, no_generation, n_reflections, i, compile_attempt, msg_history,
           response, ga_exists, ga_file, current_latex, check_output,
           compile_status, pdf_produced, final_pdf, base_pdf, result, exit,
           llm_calls, compile_calls>>

qvars == <<client, current_model, env, q_pc, model, func_spec, attempts,
           inner_retries, provider_calls, failures, completion, output,
           q_error, queries, built_for>>

uvars == <<u_pc, u_calls, prompt_total, completion_total, interactions,
           save_pc, saved_summary, saved_interactions>>

tvars == <<t_pc, t_used, t_queries>>

wvars == <<w_pc, w_idx, sections, w_current_latex, w_document, w_exit>>

vars == <<svars, qvars, uvars, tvars, wvars>>

\* ------------------------------------------------------------------ bounds
MaxReflections == 2
MaxAttempts == 3      \* the retry engine's maximum attempt count
MaxQueries == 2       \* query calls made in one run of the process
MaxRecorders == 3     \* sessions that record a call into the token tracker
MaxSharedQueries == 2 \* query calls of each session sharing the globals

\* ------------------------------------------------------------ text helpers
Min(S) == CHOOSE x \in S : \A y \in S : x <= y
Max(S) == CHOOSE x \in S : \A y \in S : x >= y

\* str.strip(): drop leading and trailing whitespace
Strip(s) ==
    LET NW == {k \in 1..Len(s) : s[k] # "W"}
    IN  IF NW = {} THEN <<>> ELSE SubSeq(s, Min(NW), Max(NW))

\* variant: any fenced block is taken, the marker is not required
ReSearchLatex_AnyFence(s) ==
    LET Closers(p) == {j \in (p + 1)..Len(s) : s[j] = "F"}
        Starts == {p \in 1..(Len(s) - 1) : s[p] = "F" /\ Closers(p) # {}}
    IN  IF Starts = {}
        THEN [found |-> FALSE, group |-> <<>>]
        ELSE LET p == Min(Starts)
                 j == Min(Closers(p))
             IN  [found |-> TRUE, group |-> SubSeq(s, p + 1, j - 1)]

\* variant: the last marked block of the reply is taken
ReSearchLatex_Last(s) ==
    LET Closers(p) == {j \in (p + 2)..Len(s) : s[j] = "F"}
        Starts == {p \in 1..(Len(s) - 1) :
                      s[p] = "F" /\ s[p + 1] = "L" /\ Closers(p) # {}}
    IN  IF Starts = {}
        THEN [found |-> FALSE, group |-> <<>>]
        ELSE LET p == Max(Starts)
                 j == Min(Closers(p))
             IN  [found |-> TRUE, group |-> SubSeq(s, p + 2, j - 1)]

\* re.search(r"```latex(.*?)```", s, re.DOTALL): leftmost opening fence
\* followed by the marker, lazily up to the next fence
ReSearchLatex(s) ==
    LET Closers(p) == {j \in (p + 2)..Len(s) : s[j] = "F"}
        Starts == {p \in 1..(Len(s) - 1) :
                      s[p] = "F" /\ s[p + 1] = "L" /\ Closers(p) # {}}
    IN  IF Starts = {}
        THEN [found |-> FALSE, group |-> <<>>]
        ELSE LET p == Min(Starts)
                 j == Min(Closers(p))
             IN  [found |-> TRUE, group |-> SubSeq(s, p + 2, j - 1)]

\* variant: the reply is only tested for starting with the phrase
SentinelIn_Prefix(s) == Len(s) > 0 /\ s[1] = "D"

\* "I am done" in reflection_response
SentinelIn(s) == \E k \in 1..Len(s) : s[k] = "D"

\* replies the model may give
Replies ==
    { <<"T">>,                                   \* prose only
      <<"T", "F", "L", "W", "X", "W", "F">>,     \* one block X
      <<"F", "L", "Y", "F", "T">>,               \* one block Y
      <<"F", "L", "Y", "F", "F", "L", "X", "F">>,\* two blocks, Y first
      <<"F", "X", "F">>,                         \* fence without the marker
      <<"F", "L", "X">>,                         \* fence never closed
      <<"T", "D">>,                              \* sentinel
      <<"D", "F", "L", "Y", "F">> }              \* sentinel and a block

\* chktex outputs
Diags == { <<>>, <<"E">> }

\* outcomes of the two subprocess.run calls: pdflatex ran to its end with or
\* without a PDF, was killed at the timeout (TimeoutExpired, caught), or
\* could not be started (FileNotFoundError and other OSError, not caught)
CompileOutcomes ==
    { [status |-> "ok",           pdf |-> TRUE],
      [status |-> "error",        pdf |-> FALSE],
      [status |-> "timeout",      pdf |-> FALSE],
      [status |-> "launch_error", pdf |-> FALSE] }

\* graphical_abstract_prompt.format(...)
SeedPrompt == <<"P">>

\* the f-string reflection_prompt
ReflectionPrompt(chk, latex) ==
    <<"R", "F">> \o chk \o <<"F", "F", "L">> \o latex \o <<"F", "D">>

\* get_response_from_llm: the returned history is the given one plus the
\* user turn and the assistant turn
NewMsgHistory(history, msg, reply) ==
    history \o << [role |-> "user", content |-> msg],
                  [role |-> "assistant", content |-> reply] >>

\* variant: the reflection query is made without the history
CritiqueHistoryArg_Dropped(history) == <<>>

\* msg_history=msg_history in the reflection query
CritiqueHistoryArg(history) == history

\* variant: one round too many
LoopBound_OffByOne(n) == n + 1

\* range(n_reflections)
LoopBound(n) == n

\* ------------------------------------------------- perform_graph_abstract
SessionInit ==
    /\ pc = "start"
    /\ no_generation \in BOOLEAN
    /\ n_reflections \in 0..MaxReflections
    /\ i = 0
    /\ compile_attempt = 0
    /\ msg_history = <<>>
    /\ response = <<>>
    /\ ga_exists \in BOOLEAN          \* left by an earlier run, or not
    /\ ga_file = <<>>
    /\ current_latex = <<>>
    /\ check_output = <<>>
    /\ compile_status = "none"
    /\ pdf_produced = FALSE
    /\ final_pdf \in BOOLEAN          \* left in base_folder by an earlier run
    /\ base_pdf \in BOOLEAN
    /\ result = "none"
    /\ exit = "none"
    /\ llm_calls = 0
    /\ compile_calls = 0

\* return <flag> at the statement named by how
Return(flag, how) ==
    /\ pc' = "done"
    /\ result' = flag
    /\ exit' = how

\* the except Exception handler: print and return False
ExceptReturn == Return(FALSE, "exception")

\* compile_tikz_standalone(ga_folder, target): the pdflatex runs end as o;
\* the generated PDF, when there is one, is moved onto the target
CompileTikzStandalone(o) ==
    /\ compile_status' = o.status
    /\ pdf_produced' = o.pdf
    /\ compile_calls' = compile_calls + 1

\* an exception leaves perform_graph_abstract: nothing is returned
Escape ==
    /\ pc' = "done"
    /\ exit' = "escaped"
    /\ result' = "none"

\* the handler again, reached from a file operation of the loading phase
\* (file operations after that phase are taken to succeed)
IOExceptReturn == Return(FALSE, "io_exception")

\* the handler again, reached from compile_tikz_standalone
ToolExceptReturn == Return(FALSE, "tool_exception")

\* shutil.rmtree or os.makedirs raises (lines 216-220, before the try)
StartCleanupFails ==
    /\ ga_exists' \in {ga_exists, FALSE}
    /\ Escape
    /\ UNCHANGED <<compile_status, pdf_produced, compile_calls, base_pdf>>

\* rmtree(ga_folder), makedirs, loading of the inputs, and the no_generation
\* branch
Start ==
    /\ pc = "start"
    /\ ga_file' = <<>>
    /\ \/ StartCleanupFails
       \/ /\ ga_exists' = FALSE
          /\ IOExceptReturn
          /\ UNCHANGED <<compile_status, pdf_produced, compile_calls,
                         base_pdf>>
       \/ /\ ga_exists' = FALSE
          /\ IF no_generation
             THEN IF ga_exists'
                  THEN \E o \in CompileOutcomes :
                          /\ CompileTikzStandalone(o)
                          /\ base_pdf' = (o.pdf \/ base_pdf)
                          /\ IF o.status = "launch_error"
                             THEN ToolExceptReturn
                             ELSE Return(base_pdf', "no_generation")
                  ELSE /\ Return(FALSE, "no_generation")
                       /\ UNCHANGED <<compile_status, pdf_produced,
                                      compile_calls, base_pdf>>
             ELSE /\ pc' = "generate"
                  /\ UNCHANGED <<result, exit, compile_status, pdf_produced,
                                 compile_calls, base_pdf>>
    /\ UNCHANGED <<final_pdf, no_generation, n_reflections, i, compile_attempt,
                   msg_history, response, current_latex, check_output,
                   llm_calls>>

\* create_client and the first get_response_from_llm
Generate ==
    /\ pc = "generate"
    /\ llm_calls' = llm_calls + 1
    /\ \/ \E r \in Replies :
            /\ response' = r
            /\ msg_history' = NewMsgHistory(<<>>, SeedPrompt, r)
            /\ pc' = "extract"
            /\ UNCHANGED <<result, exit>>
       \/ /\ ExceptReturn
          /\ UNCHANGED <<response, msg_history>>
    /\ UNCHANGED <<no_generation, n_reflections, i, compile_attempt, ga_exists,
                   ga_file, current_latex, check_output, compile_status,
                   pdf_produced, final_pdf, base_pdf, compile_calls>>

\* extraction of the LaTeX code from the generation reply, and the first
\* write of graphical_abstract.tex
Extract ==
    /\ pc = "extract"
    /\ LET m == ReSearchLatex(response)
       IN  IF ~m.found
           THEN /\ Return(FALSE, "no_block")
                /\ UNCHANGED <<ga_exists, ga_file>>
           ELSE /\ ga_file' = Strip(m.group)
                /\ ga_exists' = TRUE
                /\ pc' = "loop"
                /\ UNCHANGED <<result, exit>>
    /\ UNCHANGED <<no_generation, n_reflections, i, compile_attempt,
                   msg_history, response, current_latex, check_output,
                   compile_status, pdf_produced, final_pdf, base_pdf,
                   llm_calls, compile_calls>>

\* for i in range(n_reflections)
LoopHead ==
    /\ pc = "loop"
    /\ IF i < LoopBound(n_reflections)
       THEN /\ i' = i + 1
            /\ pc' = "compile"
       ELSE /\ pc' = "final"
            /\ i' = i
    /\ UNCHANGED <<no_generation, n_reflections, compile_attempt, msg_history,
                   response, ga_exists, ga_file, current_latex, check_output,
                   compile_status, pdf_produced, final_pdf, base_pdf,
                   result, exit, llm_calls, compile_calls>>

\* compile the current version, read it back, run chktex
Compile ==
    /\ pc = "compile"
    /\ \E o \in CompileOutcomes :
          /\ CompileTikzStandalone(o)
          /\ IF o.status = "launch_error"
             THEN /\ ToolExceptReturn
                  /\ UNCHANGED <<compile_attempt, current_latex, check_output>>
             ELSE /\ compile_attempt' = compile_attempt + 1
                  /\ current_latex' = ga_file
                  /\ check_output' \in Diags
                  /\ pc' = "critique"
                  /\ UNCHANGED <<result, exit>>
    /\ UNCHANGED <<no_generation, n_reflections, i, msg_history, response,
                   ga_exists, ga_file, final_pdf, base_pdf, llm_calls>>

\* the reflection query
Critique ==
    /\ pc = "critique"
    /\ llm_calls' = llm_calls + 1
    /\ \/ \E r \in Replies :
            /\ response' = r
            /\ msg_history' =
                  NewMsgHistory(CritiqueHistoryArg(msg_history),
                                ReflectionPrompt(check_output, current_latex),
                                r)
            /\ pc' = "reflect"
            /\ UNCHANGED <<result, exit>>
       \/ /\ ExceptReturn
          /\ UNCHANGED <<response, msg_history>>
    /\ UNCHANGED <<no_generation, n_reflections, i, compile_attempt, ga_exists,
                   ga_file, current_latex, check_output, compile_status,
                   pdf_produced, final_pdf, base_pdf, compile_calls>>

\* variant: the revised version is written before the sentinel is tested
Reflect_ReviseFirst ==
    /\ pc = "reflect"
    /\ LET m == ReSearchLatex(response)
       IN  ga_file' = IF m.found THEN Strip(m.group) ELSE ga_file
    /\ pc' = IF SentinelIn(response) THEN "final" ELSE "loop"
    /\ UNCHANGED <<no_generation, n_reflections, i, compile_attempt,
                   msg_history, response, ga_exists, current_latex,
                   check_output, compile_status, pdf_produced, final_pdf,
                   base_pdf, result, exit, llm_calls, compile_calls>>

\* variant: a reply without a block empties graphical_abstract.tex
Reflect_NoBlockClears ==
    /\ pc = "reflect"
    /\ IF SentinelIn(response)
       THEN /\ pc' = "final"
            /\ UNCHANGED <<ga_file>>
       ELSE LET m == ReSearchLatex(response)
            IN  /\ ga_file' = IF m.found THEN Strip(m.group) ELSE <<>>
                /\ pc' = "loop"
    /\ UNCHANGED <<no_generation, n_reflections, i, compile_attempt,
                   msg_history, response, ga_exists, current_latex,
                   check_output, compile_status, pdf_produced, final_pdf,
                   base_pdf, result, exit, llm_calls, compile_calls>>

\* variant: the sentinel returns at once, without the final compilation
Reflect_SentinelSkipsFinal ==
    /\ pc = "reflect"
    /\ IF SentinelIn(response)
       THEN /\ Return(final_pdf, "final")
            /\ UNCHANGED <<ga_file>>
       ELSE LET m == ReSearchLatex(response)
            IN  /\ ga_file' = IF m.found THEN Strip(m.group) ELSE ga_file
                /\ pc' = "loop"
                /\ UNCHANGED <<result, exit>>
    /\ UNCHANGED <<no_generation, n_reflections, i, compile_attempt,
                   msg_history, response, ga_exists, current_latex,
                   check_output, compile_status, pdf_produced, final_pdf,
                   base_pdf, llm_calls, compile_calls>>

\* the sentinel test, then the extraction of a revised version
Reflect ==
    /\ pc = "reflect"
    /\ IF SentinelIn(response)
       THEN /\ pc' = "final"
            /\ UNCHANGED <<ga_file>>
       ELSE LET m == ReSearchLatex(response)
            IN  /\ ga_file' = IF m.found THEN Strip(m.group) ELSE ga_file
                /\ pc' = "loop"
    /\ UNCHANGED <<no_generation, n_reflections, i, compile_attempt,
                   msg_history, response, ga_exists, current_latex,
                   check_output, compile_status, pdf_produced, final_pdf,
                   base_pdf, result, exit, llm_calls, compile_calls>>

\* variant: success is reported once the model said it was done
FinalCompile_TrustsModel ==
    /\ pc = "final"
    /\ \E o \in CompileOutcomes :
          /\ CompileTikzStandalone(o)
          /\ final_pdf' = (o.pdf \/ final_pdf)
    /\ Return(final_pdf' \/ SentinelIn(response), "final")
    /\ UNCHANGED <<no_generation, n_reflections, i, compile_attempt,
                   msg_history, response, ga_exists, ga_file, current_latex,
                   check_output, base_pdf, llm_calls>>

\* the final compilation and return osp.exists(<base>_final.pdf)
FinalCompile ==
    /\ pc = "final"
    /\ \E o \in CompileOutcomes :
          /\ CompileTikzStandalone(o)
          /\ final_pdf' = (o.pdf \/ final_pdf)
          /\ IF o.status = "launch_error"
             THEN ToolExceptReturn
             ELSE Return(final_pdf', "final")
    /\ UNCHANGED <<no_generation, n_reflections, i, compile_attempt,
                   msg_history, response, ga_exists, ga_file, current_latex,
                   check_output, base_pdf, llm_calls>>

\* ------------------------------------------------------- backend_openai
\* model identifiers, as sequences of name parts ("" is the empty sequence)
Models ==
    { <<>>, <<"gpt-4o">>, <<"deepseek", "-chat">>, <<"deepseek", "-reasoner">> }

\* "deepseek" in model
IsDeepSeek(m) == \E k \in 1..Len(m) : m[k] = "deepseek"

NoClient == [base_url |-> "none", max_retries |-> 0]

\* variant: max_retries is left out and the client resends twice by itself
ClientMaxRetries_Default == 1 + 1

\* max_retries=0 in both openai.OpenAI(...) constructions
ClientMaxRetries == 0

\* error kinds of the provider library
ProviderErrors ==
    { "RateLimitError", "APIConnectionError", "APITimeoutError",
      "InternalServerError", "BadRequestError", "AuthenticationError" }

\* the kinds a client with max_retries > 0 resends by itself
ClientRetryable ==
    { "RateLimitError", "APIConnectionError", "APITimeoutError",
      "InternalServerError" }

\* variant: the server-side error is missing from the tuple
OPENAI_TIMEOUT_EXCEPTIONS_Narrow ==
    { "RateLimitError", "APIConnectionError", "APITimeoutError" }

\* variant: every provider error is in the tuple
OPENAI_TIMEOUT_EXCEPTIONS_Wide == ProviderErrors

\* the exception classes handed to backoff_create
OPENAI_TIMEOUT_EXCEPTIONS ==
    { "RateLimitError", "APIConnectionError", "APITimeoutError",
      "InternalServerError" }

NoFuncSpec == [present |-> FALSE, name |-> "none"]
FuncSpecs == { NoFuncSpec, [present |-> TRUE, name |-> "f"] }

NoCompletion == [content |-> <<>>, tool_calls |-> <<>>]

\* completions the provider may answer
Completions ==
    { [content |-> <<"T">>, tool_calls |-> <<>>],
      [content |-> <<>>,
       tool_calls |-> << [name |-> "f", arguments |-> <<"{", "k", "}">>] >>],
      [content |-> <<>>,
       tool_calls |-> << [name |-> "g", arguments |-> <<"{", "k", "}">>] >>],
      [content |-> <<>>,
       tool_calls |-> << [name |-> "f", arguments |-> <<"{", "k">>] >>],
      [content |-> <<>>,
       tool_calls |-> << [name |-> "g", arguments |-> <<"{", "}">>],
                         [name |-> "f", arguments |-> <<"{", "}">>] >>] }

NoOutput == [kind |-> "none", value |-> <<>>]

\* json.loads on the argument text: an object is a brace pair around keys
JsonLoads(a) ==
    IF Len(a) >= 2 /\ a[1] = "{" /\ a[Len(a)] = "}"
       /\ \A k \in 2..(Len(a) - 1) : a[k] \notin {"{", "}"}
    THEN [ok |-> TRUE, value |-> SubSeq(a, 2, Len(a) - 1)]
    ELSE [ok |-> FALSE, value |-> <<>>]

\* assert choice.message.tool_calls
HasToolCalls(c) == c.tool_calls # <<>>

\* variant: any tool call of the reply may carry the name
FunctionNameMatches_Any(c, fs) ==
    \E k \in DOMAIN c.tool_calls : c.tool_calls[k].name = fs.name

\* assert choice.message.tool_calls[0].function.name == func_spec.name
FunctionNameMatches(c, fs) == c.tool_calls[1].name = fs.name

QueryIdle ==
    /\ client = NoClient
    /\ current_model = <<"None">>
    /\ q_pc = "idle"
    /\ model = <<>>
    /\ func_spec = NoFuncSpec
    /\ attempts = 0
    /\ inner_retries = 0
    /\ provider_calls = 0
    /\ failures = <<>>
    /\ completion = NoCompletion
    /\ output = NoOutput
    /\ q_error = "none"
    /\ queries = 0
    /\ built_for = <<>>

QueryInit ==
    /\ QueryIdle
    /\ env \in SUBSET {"DEEPSEEK_API_KEY", "OPENAI_API_KEY"}

\* query raises e
Raise(e) ==
    /\ q_pc' = "raised"
    /\ q_error' = e

\* variant: the client is only built when there is none yet
NeedsNewClient_OnlyIfNone(m) == client = NoClient

\* if _client is None or model != _current_model
NeedsNewClient(m) == client = NoClient \/ m # current_model

\* the provider family chosen by: if model and ("deepseek" in model)
Family(m) == IF IsDeepSeek(m) THEN "deepseek" ELSE "openai"

\* the environment variable the construction for m reads
CredentialOf(m) ==
    IF IsDeepSeek(m) THEN "DEEPSEEK_API_KEY" ELSE "OPENAI_API_KEY"

\* variant: the client is built without looking at the environment
CredentialMissing_Never(m) == FALSE

\* if not deepseek_api_key: raise ValueError; openai.OpenAI() refuses to be
\* built without OPENAI_API_KEY
CredentialMissing(m) == CredentialOf(m) \notin env

\* variant: _current_model is recorded before the client is built
SetupOpenaiClient_RecordsFirst(m) ==
    IF NeedsNewClient(m)
    THEN IF CredentialMissing(m)
         THEN [error |-> IF IsDeepSeek(m) THEN "ValueError" ELSE "OpenAIError",
               built |-> FALSE,
               client |-> client,
               current_model |-> m]
         ELSE [error |-> "none",
               built |-> TRUE,
               client |-> [base_url |-> Family(m),
                           max_retries |-> ClientMaxRetries],
               current_model |-> m]
    ELSE [error |-> "none", built |-> FALSE, client |-> client,
          current_model |-> current_model]

\* _setup_openai_client(m): the new <<_client, _current_model>>, or the error
SetupOpenaiClient(m) ==
    IF NeedsNewClient(m)
    THEN IF CredentialMissing(m)
         THEN [error |-> IF IsDeepSeek(m) THEN "ValueError" ELSE "OpenAIError",
               built |-> FALSE,
               client |-> client,
               current_model |-> current_model]
         ELSE [error |-> "none",
               built |-> TRUE,
               client |-> [base_url |-> Family(m),
                           max_retries |-> ClientMaxRetries],
               current_model |-> m]
    ELSE [error |-> "none", built |-> FALSE, client |-> client,
          current_model |-> current_model]

\* query is called: client setup and the request arguments
QueryStart ==
    /\ q_pc = "idle"
    /\ queries < MaxQueries
    /\ queries' = queries + 1
    /\ \E m \in Models, fs \in FuncSpecs :
          LET s == SetupOpenaiClient(m)
          IN  /\ model' = m
              /\ func_spec' = fs
              /\ client' = s.client
              /\ current_model' = s.current_model
              /\ built_for' = IF s.built THEN Append(built_for, m)
                                         ELSE built_for
              /\ IF s.error # "none"
                 THEN Raise(s.error)
                 ELSE /\ q_pc' = "call"
                      /\ q_error' = "none"
    /\ attempts' = 0
    /\ inner_retries' = 0
    /\ provider_calls' = 0
    /\ failures' = <<>>
    /\ completion' = NoCompletion
    /\ output' = NoOutput
    /\ UNCHANGED <<env>>

\* backoff_create after create raised e on call number attempts + 1
BackoffCreate(e) ==
    IF e \in OPENAI_TIMEOUT_EXCEPTIONS /\ attempts + 1 < MaxAttempts
    THEN /\ attempts' = attempts + 1
         /\ UNCHANGED <<q_pc, q_error>>
    ELSE /\ attempts' = attempts + 1
         /\ Raise(e)

\* one request of _client.chat.completions.create reaches the provider
ProviderCall ==
    /\ q_pc = "call"
    /\ provider_calls' = provider_calls + 1
    /\ \/ \E c \in Completions :
            /\ completion' = c
            /\ attempts' = attempts + 1
            /\ q_pc' = "parse"
            /\ UNCHANGED <<failures, inner_retries, q_error>>
       \/ \E e \in ProviderErrors :
            /\ failures' = Append(failures, e)
            /\ IF e \in ClientRetryable /\ inner_retries < client.max_retries
               THEN /\ inner_retries' = inner_retries + 1
                    /\ UNCHANGED <<attempts, q_pc, q_error>>
               ELSE /\ inner_retries' = 0
                    /\ BackoffCreate(e)
            /\ UNCHANGED <<completion>>
    /\ UNCHANGED <<client, current_model, env, model, func_spec, output,
                   queries, built_for>>

\* the reply is turned into the returned output
Parse ==
    /\ q_pc = "parse"
    /\ IF ~func_spec.present
       THEN /\ output' = [kind |-> "text", value |-> completion.content]
            /\ q_pc' = "returned"
            /\ UNCHANGED <<q_error>>
       ELSE IF ~HasToolCalls(completion)
            THEN Raise("AssertionError") /\ UNCHANGED <<output>>
            ELSE IF ~FunctionNameMatches(completion, func_spec)
                 THEN Raise("AssertionError") /\ UNCHANGED <<output>>
                 ELSE LET j == JsonLoads(completion.tool_calls[1].arguments)
                      IN  IF j.ok
                          THEN /\ output' = [kind |-> "json",
                                             value |-> j.value]
                               /\ q_pc' = "returned"
                               /\ UNCHANGED <<q_error>>
                          ELSE Raise("JSONDecodeError") /\ UNCHANGED <<output>>
    /\ UNCHANGED <<client, current_model, env, model, func_spec, attempts,
                   inner_retries, provider_calls, failures, completion,
                   queries, built_for>>

\* the caller goes on to its next query
QueryDone ==
    /\ q_pc \in {"returned", "raised"}
    /\ queries < MaxQueries
    /\ q_pc' = "idle"
    /\ UNCHANGED <<client, current_model, env, model, func_spec, attempts,
                   inner_retries, provider_calls, failures, completion,
                   output, q_error, queries, built_for>>

\* --------------------------------- token_tracker and save_token_tracker
Recorders == 1..MaxRecorders

\* token counts a call may report
TokenCounts == {1, 2}

NoSummary == [prompt |-> -1, completion |-> -1]

UsageIdle ==
    /\ u_pc = [p \in Recorders |-> "pending"]
    /\ prompt_total = 0
    /\ completion_total = 0
    /\ interactions = <<>>
    /\ save_pc = "summary"
    /\ saved_summary = NoSummary
    /\ saved_interactions = <<>>

UsageInit ==
    /\ UsageIdle
    /\ u_calls \in [Recorders -> [prompt : TokenCounts,
                                  completion : TokenCounts]]

\* variant: the counters are assigned instead of incremented
Record_Overwrites(p) ==
    /\ u_pc[p] = "pending"
    /\ u_pc' = [u_pc EXCEPT ![p] = "recorded"]
    /\ prompt_total' = u_calls[p].prompt
    /\ completion_total' = u_calls[p].completion
    /\ interactions' = Append(interactions, [session |-> p,
                                             tokens |-> u_calls[p]])
    /\ UNCHANGED <<u_calls, save_pc, saved_summary, saved_interactions>>

\* the recording entry point of the token tracker, called by session p: both
\* counters are incremented and the record is appended in one atomic step
Record(p) ==
    /\ u_pc[p] = "pending"
    /\ u_pc' = [u_pc EXCEPT ![p] = "recorded"]
    /\ prompt_total' = prompt_total + u_calls[p].prompt
    /\ completion_total' = completion_total + u_calls[p].completion
    /\ interactions' = Append(interactions, [session |-> p,
                                             tokens |-> u_calls[p]])
    /\ UNCHANGED <<u_calls, save_pc, saved_summary, saved_interactions>>

\* token_tracker.get_summary()
GetSummary == [prompt |-> prompt_total, completion |-> completion_total]

\* save_token_tracker, first file: json.dump(token_tracker.get_summary(), f)
SaveSummary ==
    /\ save_pc = "summary"
    /\ saved_summary' = GetSummary
    /\ save_pc' = "interactions"
    /\ UNCHANGED <<u_pc, u_calls, prompt_total, completion_total,
                   interactions, saved_interactions>>

\* save_token_tracker, second file:
\* json.dump(token_tracker.get_interactions(), f)
SaveInteractions ==
    /\ save_pc = "interactions"
    /\ saved_interactions' = interactions
    /\ save_pc' = "summary"
    /\ UNCHANGED <<u_pc, u_calls, prompt_total, completion_total,
                   interactions, saved_summary>>

UsageFixed == UsageIdle /\ u_calls = [p \in Recorders |->
                                        [prompt |-> 1, completion |-> 1]]

\* ------------------------ query called by sessions that share the globals
Sessions == {1, 2}

\* the model each session passes to query: one of each provider family
SessionModel(t) == IF t = 1 THEN <<"deepseek", "-chat">> ELSE <<"gpt-4o">>

SharedIdle ==
    /\ t_pc = [t \in Sessions |-> "idle"]
    /\ t_used = [t \in Sessions |-> NoClient]
    /\ t_queries = [t \in Sessions |-> 0]

\* the part of the state of query that the interleaved sessions leave alone
qrest == <<q_pc, model, func_spec, attempts, inner_retries, provider_calls,
           failures, completion, output, q_error, queries, built_for>>

\* session t calls query: _setup_openai_client evaluates the test of line 29
T_SetupTest(t) ==
    /\ t_pc[t] = "idle"
    /\ t_queries[t] < MaxSharedQueries
    /\ t_queries' = [t_queries EXCEPT ![t] = @ + 1]
    /\ t_pc' = [t_pc EXCEPT ![t] = IF NeedsNewClient(SessionModel(t))
                                   THEN "build" ELSE "ready"]
    /\ UNCHANGED <<client, current_model, env, t_used>>

\* lines 30-47: the credential test and the assignment to _client
T_Build(t) ==
    /\ t_pc[t] = "build"
    /\ IF CredentialMissing(SessionModel(t))
       THEN /\ t_pc' = [t_pc EXCEPT ![t] = "raised"]
            /\ UNCHANGED <<client>>
       ELSE /\ client' = [base_url |-> Family(SessionModel(t)),
                          max_retries |-> ClientMaxRetries]
            /\ t_pc' = [t_pc EXCEPT ![t] = "record"]
    /\ UNCHANGED <<current_model, env, t_used, t_queries>>

\* line 49: _current_model = model
T_Record(t) ==
    /\ t_pc[t] = "record"
    /\ current_model' = SessionModel(t)
    /\ t_pc' = [t_pc EXCEPT ![t] = "ready"]
    /\ UNCHANGED <<client, env, t_used, t_queries>>

\* line 70: _client.chat.completions.create is read from the global and the
\* request is issued through it
T_CallSite(t) ==
    /\ t_pc[t] = "ready"
    /\ t_used' = [t_used EXCEPT ![t] = client]
    /\ t_pc' = [t_pc EXCEPT ![t] = "called"]
    /\ UNCHANGED <<client, current_model, env, t_queries>>

\* query returns or raises, and the session goes on to its next query
T_Return(t) ==
    /\ t_pc[t] \in {"called", "raised"}
    /\ t_queries[t] < MaxSharedQueries
    /\ t_pc' = [t_pc EXCEPT ![t] = "idle"]
    /\ UNCHANGED <<client, current_model, env, t_used, t_queries>>

\* ------------------------------------------------ generate_full_writeup
\* section_order
SectionOrder ==
    << "header", "introduction", "related_work", "methods", "experiments",
       "conclusion" >>

\* replies of the model to a section request
WriteupReplies ==
    { <<"T">>,                              \* LaTeX without any fence
      <<"F", "L", "W", "X", "W", "F">>,     \* a block marked latex
      <<"F", "X", "F">> }                   \* a block without the marker

\* re.sub(r"```\w*\n?", "", response): the fences are taken out
RemoveFences(s) ==
    LET Keep == {k \in 1..Len(s) : s[k] # "F"}
        Nth(n) == CHOOSE k \in Keep : Cardinality({j \in Keep : j <= k}) = n
    IN  [n \in 1..Cardinality(Keep) |-> s[Nth(n)]]

\* the cleaning at the end of generate_section
CleanResponse(s) ==
    IF \E k \in 1..(Len(s) - 1) : s[k] = "F" /\ s[k + 1] = "L"
    THEN LET m == ReSearchLatex(s)
         IN  IF m.found THEN Strip(m.group) ELSE s
    ELSE IF \E k \in 1..Len(s) : s[k] = "F"
         THEN Strip(RemoveFences(s))
         ELSE s

NoSections == [n \in {} |-> <<>>]

WriteupIdle ==
    /\ w_pc = "idle"
    /\ w_idx = 1
    /\ sections = NoSections
    /\ w_current_latex = <<>>
    /\ w_document = <<"template">>
    /\ w_exit = "none"

\* main after create_client: sections = {}, current_latex = ""
WriteupInit ==
    /\ w_pc = "loop"
    /\ w_idx = 1
    /\ sections = NoSections
    /\ w_current_latex = <<>>
    /\ w_document \in { <<"template">>, <<>> }
    /\ w_exit = "none"

\* one round of: for section in section_order, with its try / except
GenerateSection ==
    /\ w_pc = "loop"
    /\ LET name == SectionOrder[w_idx]
       IN  \/ \E r \in WriteupReplies :
                /\ sections' =
                      [n \in DOMAIN sections \cup {name} |->
                          IF n = name THEN CleanResponse(r) ELSE sections[n]]
                /\ w_current_latex' =
                      w_current_latex \o <<"N">> \o CleanResponse(r)
           \/ UNCHANGED <<sections, w_current_latex>>
    /\ w_idx' = w_idx + 1
    /\ w_pc' = IF w_idx = Len(SectionOrder) THEN "combine" ELSE "loop"
    /\ UNCHANGED <<w_document, w_exit>>

\* the text combine_sections builds from the sections at positions k..
RECURSIVE Joined(_)
Joined(k) ==
    IF k > Len(SectionOrder) THEN <<>>
    ELSE (IF SectionOrder[k] \in DOMAIN sections
          THEN <<"N">> \o sections[SectionOrder[k]] ELSE <<>>)
         \o Joined(k + 1)

\* combine_sections(sections, experiment_dir), then the end of main
CombineSections ==
    /\ w_pc = "combine"
    /\ IF "header" \in DOMAIN sections
       THEN /\ w_document' = sections["header"] \o Joined(2)
            /\ w_exit' = "written"
       ELSE /\ w_exit' = "KeyError"
            /\ UNCHANGED <<w_document>>
    /\ w_pc' = "done"
    /\ UNCHANGED <<w_idx, sections, w_current_latex>>

Init ==
    SessionInit /\ QueryIdle /\ env = {} /\ UsageFixed /\ SharedIdle
    /\ WriteupIdle
Next ==
    \/ Start /\ UNCHANGED <<qvars, uvars, tvars, wvars>>
    \/ Generate /\ UNCHANGED <<qvars, uvars, tvars, wvars>>
    \/ Extract /\ UNCHANGED <<qvars, uvars, tvars, wvars>>
    \/ LoopHead /\ UNCHANGED <<qvars, uvars, tvars, wvars>>
    \/ Compile /\ UNCHANGED <<qvars, uvars, tvars, wvars>>
    \/ Critique /\ UNCHANGED <<qvars, uvars, tvars, wvars>>
    \/ Reflect /\ UNCHANGED <<qvars, uvars, tvars, wvars>>
    \/ FinalCompile /\ UNCHANGED <<qvars, uvars, tvars, wvars>>
Spec == Init /\ [][Next]_vars

\* the interpreter always runs the next statement of a call that has not
\* ended, and every query and compilation returns or raises
SpecLive == Init /\ [][Next]_vars /\ WF_vars(Next)

SessionIdle ==
    /\ pc = "idle"
    /\ no_generation = FALSE
    /\ n_reflections = 0
    /\ i = 0
    /\ compile_attempt = 0
    /\ msg_history = <<>>
    /\ response = <<>>
    /\ ga_exists = FALSE
    /\ ga_file = <<>>
    /\ current_latex = <<>>
    /\ check_output = <<>>
    /\ compile_status = "none"
    /\ pdf_produced = FALSE
    /\ final_pdf = FALSE
    /\ base_pdf = FALSE
    /\ result = "none"
    /\ exit = "none"
    /\ llm_calls = 0
    /\ compile_calls = 0

\* query: no statement of query touches the token tracker
InitQuery ==
    QueryInit /\ SessionIdle /\ UsageFixed /\ SharedIdle /\ WriteupIdle
NextQuery ==
    \/ QueryStart /\ UNCHANGED <<svars, uvars, tvars, wvars>>
    \/ ProviderCall /\ UNCHANGED <<svars, uvars, tvars, wvars>>
    \/ Parse /\ UNCHANGED <<svars, uvars, tvars, wvars>>
    \/ QueryDone /\ UNCHANGED <<svars, uvars, tvars, wvars>>
SpecQuery == InitQuery /\ [][NextQuery]_vars

\* sessions recording concurrently, and save_token_tracker
InitUsage ==
    UsageInit /\ SessionIdle /\ QueryIdle /\ env = {} /\ SharedIdle
    /\ WriteupIdle
NextUsage ==
    \/ \E p \in Recorders : Record(p) /\ UNCHANGED <<svars, qvars, tvars, wvars>>
    \/ SaveSummary /\ UNCHANGED <<svars, qvars, tvars, wvars>>
    \/ SaveInteractions /\ UNCHANGED <<svars, qvars, tvars, wvars>>
SpecUsage == InitUsage /\ [][NextUsage]_vars


\* two sessions of one process interleaving their query calls
InitShared ==
    /\ SharedIdle
    /\ SessionIdle
    /\ QueryInit
    /\ UsageFixed
    /\ WriteupIdle
NextShared ==
    \/ \E t \in Sessions :
          T_SetupTest(t) /\ UNCHANGED <<svars, qrest, uvars, wvars>>
    \/ \E t \in Sessions :
          T_Build(t) /\ UNCHANGED <<svars, qrest, uvars, wvars>>
    \/ \E t \in Sessions :
          T_Record(t) /\ UNCHANGED <<svars, qrest, uvars, wvars>>
    \/ \E t \in Sessions :
          T_CallSite(t) /\ UNCHANGED <<svars, qrest, uvars, wvars>>
    \/ \E t \in Sessions :
          T_Return(t) /\ UNCHANGED <<svars, qrest, uvars, wvars>>
SpecShared == InitShared /\ [][NextShared]_vars

\* the section loop of generate_full_writeup.main
InitWriteup ==
    /\ WriteupInit
    /\ SessionIdle
    /\ QueryIdle
    /\ env = {}
    /\ UsageFixed
    /\ SharedIdle
NextWriteup ==
    \/ GenerateSection /\ UNCHANGED <<svars, qvars, uvars, tvars>>
    \/ CombineSections /\ UNCHANGED <<svars, qvars, uvars, tvars>>
SpecWriteup == InitWriteup /\ [][NextWriteup]_vars

\* ------------------------------------------------------------- properties
\* the words of the claims, stated on the text itself
ContainsSentinel(s) == \E k \in DOMAIN s : s[k] = "D"
ContainsLatexBlock(s) ==
    \E p \in DOMAIN s, j \in DOMAIN s :
        s[p] = "F" /\ p + 1 < j /\ s[p + 1] = "L" /\ s[j] = "F"
\* positions of the critique replies in the history
CritiqueReplies == {k \in DOMAIN msg_history : k >= 4 /\ k % 2 = 0}
\* the artifact taken from the generation reply
GeneratedArtifact == Strip(ReSearchLatex(msg_history[2].content).group)
TransientKinds ==
    { "RateLimitError", "APIConnectionError", "APITimeoutError",
      "InternalServerError" }
TransientOnly == \A k \in DOMAIN failures : failures[k] \in TransientKinds

\* C1: a critique reply that contains the sentinel is the last turn of the
\* conversation: the loop is left in the round of that reply and no model
\* query is issued after it
C1_SentinelEndsLoop ==
    \A k \in CritiqueReplies :
        ContainsSentinel(msg_history[k].content) =>
            /\ k = Len(msg_history)
            /\ pc \in {"reflect", "final", "done"}
            /\ llm_calls = k \div 2
            /\ i = (k - 2) \div 2

C1_Witness ==
    /\ pc = "done"
    /\ exit = "final"
    /\ n_reflections = 2
    /\ Len(msg_history) = 4
    /\ ContainsSentinel(msg_history[4].content)

\* C2: when no critique reply has the sentinel or a new block, a session
\* that reaches its end has run exactly n_reflections rounds and the file
\* holds the artifact taken from the generation reply
C2_UnchangedAfterAllRounds ==
    ( /\ pc = "done"
      /\ exit = "final"
      /\ \A k \in CritiqueReplies :
            /\ ~ContainsSentinel(msg_history[k].content)
            /\ ~ContainsLatexBlock(msg_history[k].content) )
    => /\ i = n_reflections
       /\ Cardinality(CritiqueReplies) = n_reflections
       /\ llm_calls = n_reflections + 1
       /\ ga_file = GeneratedArtifact

C2_Witness ==
    /\ pc = "done"
    /\ exit = "final"
    /\ n_reflections = 2
    /\ Cardinality(CritiqueReplies) = 2
    /\ \A k \in CritiqueReplies :
          /\ ~ContainsSentinel(msg_history[k].content)
          /\ ~ContainsLatexBlock(msg_history[k].content)
    /\ ga_file = <<"X">>

\* C3: generation reply with block X, first diagnostic E, sentinel in the
\* first critique reply: the session ends after that one critique with
\* artifact X and diagnostic E
C3_EndToEnd ==
    ( /\ pc = "done"
      /\ Len(msg_history) >= 4
      /\ ContainsSentinel(msg_history[4].content) )
    => /\ Len(msg_history) = 4
       /\ ga_file = GeneratedArtifact
       /\ msg_history[3].content = ReflectionPrompt(check_output, ga_file)

C3_Witness ==
    /\ pc = "done"
    /\ Len(msg_history) = 4
    /\ msg_history[2].content = <<"T", "F", "L", "W", "X", "W", "F">>
    /\ msg_history[4].content = <<"D", "F", "L", "Y", "F">>
    /\ ga_file = <<"X">>
    /\ check_output = <<"E">>
    /\ ~pdf_produced

\* C4: a generation reply without a fenced block carrying the marker ends
\* the session with False, before any compilation or critique
C4_NoBlockFailsAtOnce ==
    ( /\ Len(msg_history) >= 2
      /\ ~ContainsLatexBlock(msg_history[2].content)
      /\ pc # "extract" )
    => /\ pc = "done"
       /\ result = FALSE
       /\ exit = "no_block"
       /\ compile_calls = 0
       /\ llm_calls = 1

C4_Witness ==
    /\ pc = "done"
    /\ exit = "no_block"
    /\ msg_history[2].content = <<"F", "X", "F">>

\* C5: a session that made its final compilation reports exactly whether
\* the final PDF is present, whatever the model replied
C5_SuccessIsFinalPdf ==
    (pc = "done" /\ exit = "final") => (result = final_pdf)

C5_Witness ==
    /\ pc = "done"
    /\ exit = "final"
    /\ ContainsSentinel(response)
    /\ result = FALSE
    /\ ~pdf_produced

\* C6: fewer than MaxAttempts transient failures never make query give up,
\* and a completion is handed on after failures + 1 provider calls
C6_RetryUntilSuccess ==
    /\ (q_pc = "raised" /\ q_error \in ProviderErrors /\ TransientOnly)
          => Len(failures) >= MaxAttempts
    /\ (q_pc \in {"parse", "returned"})
          => /\ provider_calls = Len(failures) + 1
             /\ attempts = provider_calls
             /\ TransientOnly
             /\ Len(failures) < MaxAttempts
             /\ completion \in Completions
    /\ (q_pc = "returned" /\ ~func_spec.present)
          => output = [kind |-> "text", value |-> completion.content]

C6_Witness ==
    /\ q_pc = "returned"
    /\ failures = <<"RateLimitError", "InternalServerError">>
    /\ provider_calls = 3

\* C7: MaxAttempts transient failures in a row make query raise the last of
\* them after exactly MaxAttempts provider calls, and no call follows
C7_GivesUpAtMaxAttempts ==
    /\ provider_calls <= MaxAttempts
    /\ (Len(failures) = MaxAttempts /\ TransientOnly)
          => /\ q_pc \in {"raised", "idle"}
             /\ q_error = failures[MaxAttempts]
             /\ provider_calls = MaxAttempts
    /\ (q_pc = "raised" /\ q_error \in TransientKinds)
          => provider_calls = MaxAttempts

C7_Witness ==
    /\ q_pc = "raised"
    /\ q_error = "APITimeoutError"
    /\ Len(failures) = MaxAttempts
    /\ TransientOnly

\* C8: a failure outside the transient set is raised to the caller by the
\* call it happened in; on the first attempt that is after one provider call
C8_FatalNotRetried ==
    \A k \in DOMAIN failures :
        failures[k] \notin TransientKinds =>
            /\ k = Len(failures)
            /\ q_pc \in {"raised", "idle"}
            /\ q_error = failures[k]
            /\ provider_calls = k

C8_Witness ==
    /\ q_pc = "raised"
    /\ failures = <<"BadRequestError">>
    /\ provider_calls = 1

\* C9: with a FunctionSpec, query returns only for a reply whose first tool
\* call carries the requested name; any other reply ends in an error
C9_ForcedFunctionName ==
    /\ (q_pc = "returned" /\ func_spec.present)
          => /\ completion.tool_calls # <<>>
             /\ completion.tool_calls[1].name = func_spec.name
             /\ output.kind = "json"
    /\ ( /\ func_spec.present
         /\ completion \in Completions
         /\ q_pc \notin {"parse", "idle"}
         /\ \/ completion.tool_calls = <<>>
            \/ completion.tool_calls[1].name # func_spec.name )
          => q_pc = "raised" /\ q_error = "AssertionError"

C9_Witness ==
    /\ q_pc = "raised"
    /\ q_error = "AssertionError"
    /\ func_spec.present
    /\ Len(completion.tool_calls) = 2
    /\ completion.tool_calls[1].name = "g"

C11_ReuseWithinFamily ==
    \A k \in 2..Len(built_for) :
        Family(built_for[k]) # Family(built_for[k - 1])

\* C11 amended: there is one client slot; a request for the recorded model
\* reuses the cached client, a request for any other model, of whatever
\* family, constructs a client of that model's family in its place when the
\* credential is there, and leaves the slot alone when it is not
C11_ReuseForSameModel ==
    [][ queries' = queries + 1 =>
          IF client # NoClient /\ model' = current_model
          THEN /\ client' = client
               /\ built_for' = built_for
               /\ q_error' = "none"
          ELSE IF CredentialOf(model') \in env
               THEN /\ built_for' = Append(built_for, model')
                    /\ client'.base_url = Family(model')
                    /\ current_model' = model'
               ELSE /\ built_for' = built_for
                    /\ client' = client ]_vars

C11_Witness ==
    /\ built_for = << <<"deepseek", "-chat">>, <<"deepseek", "-reasoner">> >>
    /\ queries = 2
    /\ q_pc = "call"

\* C12: a query for a model whose credential is not in the environment ends
\* in the configuration error of the client construction, before any call of
\* create and any provider request
C12_MissingCredentialFailsEarly ==
    (q_pc # "idle" /\ queries > 0 /\ CredentialOf(model) \notin env)
        => /\ q_pc = "raised"
           /\ q_error = (IF IsDeepSeek(model) THEN "ValueError"
                                              ELSE "OpenAIError")
           /\ attempts = 0
           /\ provider_calls = 0
           /\ failures = <<>>

C12_Witness ==
    /\ q_pc = "raised"
    /\ q_error = "ValueError"
    /\ model = <<"deepseek", "-chat">>
    /\ client.base_url = "openai"
    /\ provider_calls = 0

Recorded == {p \in Recorders : u_pc[p] = "recorded"}
RECURSIVE SumPrompt(_)
SumPrompt(S) ==
    IF S = {} THEN 0
    ELSE LET p == CHOOSE x \in S : TRUE
         IN  u_calls[p].prompt + SumPrompt(S \ {p})
RECURSIVE SumCompletion(_)
SumCompletion(S) ==
    IF S = {} THEN 0
    ELSE LET p == CHOOSE x \in S : TRUE
         IN  u_calls[p].completion + SumCompletion(S \ {p})

\* C13: whatever the order in which the sessions record, the cumulative
\* totals are the sums of the token counts recorded so far and the log has
\* one record for each
C13_NoLostUpdate ==
    /\ prompt_total = SumPrompt(Recorded)
    /\ completion_total = SumCompletion(Recorded)
    /\ Len(interactions) = Cardinality(Recorded)

C13_Witness ==
    /\ Recorded = Recorders
    /\ interactions[1].session = MaxRecorders
    /\ u_calls[1].prompt = 2
    /\ u_calls[2].prompt = 1
    /\ prompt_total = SumPrompt(Recorders)

\* C14 as stated: once the first query has returned, its call has been
\* reported to the token tracker exactly once, and a query that raised
\* before any provider request has reported nothing
C14_ReportedExactlyOnce ==
    queries = 1 =>
        /\ (q_pc = "returned" => Len(interactions) = 1)
        /\ (provider_calls = 0 => Len(interactions) = 0)

\* C15 as stated: perform_graph_abstract never lets an exception escape to
\* its caller; every finished call has returned a flag
C15_NoEscape == pc = "done" => exit # "escaped"

\* C16 as stated: a compilation pass that does not succeed never ends the
\* session; inside the loop the critique query follows, and after the loop
\* the final outcome is the one of the final compilation
C16_ValidatorFailureNeverEndsSession ==
    [][ (/\ pc \in {"compile", "final"}
         /\ compile_calls' = compile_calls + 1
         /\ compile_status' # "ok")
        => IF pc = "compile" THEN pc' = "critique" ELSE exit' = "final" ]_vars

\* the marked blocks of a reply, by the position of their opening fence
BlockStarts(s) ==
    {p \in DOMAIN s :
        /\ s[p] = "F"
        /\ p + 1 \in DOMAIN s
        /\ s[p + 1] = "L"
        /\ \E j \in DOMAIN s : j > p + 1 /\ s[j] = "F"}
SeveralBlocks(s) == Cardinality(BlockStarts(s)) >= 2
\* the text between the marker of the first block and the fence closing it
FirstBlockBody(s) ==
    LET p == CHOOSE x \in BlockStarts(s) : \A y \in BlockStarts(s) : x <= y
        j == CHOOSE x \in DOMAIN s :
                 /\ x > p + 1 /\ s[x] = "F"
                 /\ \A y \in DOMAIN s : (y > p + 1 /\ s[y] = "F") => x <= y
    IN  [k \in 1..(j - p - 2) |-> s[p + 1 + k]]
TwoBlockReply == <<"F", "L", "Y", "F", "F", "L", "X", "F">>

\* C17: when a reply holds several marked blocks, the artifact written from
\* it is the first block, for the generation reply and for a critique reply
\* alike
C17_FirstBlockWins ==
    [][ (/\ \/ pc = "extract"
            \/ pc = "reflect" /\ ~ContainsSentinel(response)
         /\ SeveralBlocks(response))
        => ga_file' = Strip(FirstBlockBody(response)) ]_vars

C17_Witness ==
    /\ pc = "loop"
    /\ llm_calls = 2
    /\ Len(msg_history) = 4
    /\ GeneratedArtifact = <<"X">>
    /\ response = TwoBlockReply
    /\ ga_file = <<"Y">>

\* C18 as stated: a call with no_generation set that finds
\* graphical_abstract.tex in place queries no model, compiles that file
\* once, and returns whether the compiled PDF exists
C18_CompilesExistingFile ==
    [][ (/\ pc = "start"
         /\ no_generation
         /\ ga_exists
         /\ exit' = "no_generation")
        => /\ llm_calls' = 0
           /\ compile_calls' = 1
           /\ result' = base_pdf' ]_vars

\* C19 as stated: a call with no_generation set that finds no
\* graphical_abstract.tex returns False, raises nothing, queries no model
\* and runs no compilation
C19_ReturnsFalseQuietly ==
    [][ (/\ pc = "start"
         /\ no_generation
         /\ ~ga_exists)
        => /\ exit' # "escaped"
           /\ result' = FALSE
           /\ llm_calls' = 0
           /\ compile_calls' = 0 ]_vars

\* C20: in a round whose reply has no sentinel the artifact becomes the
\* reply's block if it has one and stays as it was otherwise, and the loop
\* head, the compilation and the critique query leave the artifact alone
C20_ArtifactFrame ==
    [][ /\ (pc = "reflect" /\ ~ContainsSentinel(response))
           => ga_file' = IF ContainsLatexBlock(response)
                         THEN Strip(FirstBlockBody(response))
                         ELSE ga_file
        /\ pc \in {"loop", "compile", "critique"} => ga_file' = ga_file ]_vars

C20_Witness ==
    /\ pc = "loop"
    /\ Len(msg_history) = 6
    /\ GeneratedArtifact = <<"X">>
    /\ msg_history[4].content = <<"F", "L", "Y", "F", "T">>
    /\ msg_history[6].content = <<"T">>
    /\ ga_file = <<"Y">>

\* C21: the message history only grows: every step leaves the history it
\* found as a prefix of the history it leaves, so the critique query is
\* given the history the previous query returned and no turn is rewritten
C21_HistoryAppendOnly ==
    [][ /\ Len(msg_history') >= Len(msg_history)
        /\ \A k \in DOMAIN msg_history : msg_history'[k] = msg_history[k]
        /\ (pc = "critique" /\ pc' = "reflect")
              => Len(msg_history') = Len(msg_history) + 2 ]_vars

C21_Witness ==
    /\ pc = "reflect"
    /\ Len(msg_history) = 6
    /\ msg_history[1].content = SeedPrompt
    /\ msg_history[3].role = "user"
    /\ msg_history[4].content = TwoBlockReply
    /\ msg_history[6].content = <<"T", "D">>

\* C22: the number of critique rounds started never exceeds n_reflections,
\* and with n_reflections = 0 the generation query is the only query
C22_RoundsBounded ==
    /\ i <= n_reflections
    /\ n_reflections = 0 => (llm_calls <= 1 /\ pc \notin {"compile", "critique", "reflect"})

C22_Witness ==
    /\ pc = "done"
    /\ exit = "final"
    /\ n_reflections = MaxReflections
    /\ i = n_reflections
    /\ llm_calls = n_reflections + 1

\* C24: a critique reply with the sentinel and a marked block ends the loop
\* and leaves the artifact as it was, and the final compilation leaves it
\* too
C24_SentinelBeatsBlock ==
    [][ /\ (/\ pc = "reflect"
            /\ ContainsSentinel(response)
            /\ ContainsLatexBlock(response))
           => (ga_file' = ga_file /\ pc' = "final")
        /\ pc = "final" => (ga_file' = ga_file /\ pc' = "done") ]_vars

C24_Witness ==
    /\ pc = "done"
    /\ exit = "final"
    /\ llm_calls = 2
    /\ response = <<"D", "F", "L", "Y", "F">>
    /\ GeneratedArtifact = <<"X">>
    /\ ga_file = <<"X">>

\* the step the controller takes next when only the replies decide
ControllerStep(p, r, k, n) ==
    CASE p = "loop"    -> IF k < n THEN "compile" ELSE "final"
      [] p = "compile" -> "critique"
      [] p = "reflect" -> IF ContainsSentinel(r) THEN "final" ELSE "loop"
      [] p = "final"   -> "done"

\* C23 as stated: the step that follows a loop head, a compilation, a
\* revision or the final compilation is fixed by the replies and the round
\* counter alone, whatever the compilation and chktex gave; sessions with the
\* same replies therefore take the same steps and run the same rounds
C23_ValidatorNeverGates ==
    [][ (pc \in {"loop", "compile", "reflect", "final"})
        => /\ pc' = ControllerStep(pc, response, i, n_reflections)
           /\ i' = IF pc = "loop" /\ i < n_reflections THEN i + 1 ELSE i
           /\ llm_calls' = llm_calls ]_vars

\* the session got its first artifact from the generation reply
PassedGeneration ==
    /\ exit # "escaped"
    /\ ga_exists
    /\ pc \in {"loop", "compile", "critique", "reflect", "final", "done"}

\* C25 as stated: a session that passed generation and has returned has run
\* one compilation more than it has issued critique queries
C25_ValidatorCount ==
    (PassedGeneration /\ pc = "done") => compile_calls = (llm_calls - 1) + 1

\* C25, amended: each critique query has exactly one compilation before it;
\* a session that returns from a compilation step has run one compilation
\* more than critique queries, and a session ended by a critique query that
\* raised has run as many compilations as critique queries
C25_ValidatorCountByExit ==
    PassedGeneration =>
        /\ pc \in {"loop", "compile", "reflect", "final"}
              => compile_calls = llm_calls - 1
        /\ pc = "critique" => compile_calls = llm_calls
        /\ pc = "done"
              => compile_calls =
                    (llm_calls - 1) + (IF exit = "exception" THEN 0 ELSE 1)

C25_Witness ==
    /\ pc = "done"
    /\ exit = "exception"
    /\ ga_exists
    /\ llm_calls = 3
    /\ compile_calls = 2
    /\ ga_file = <<"Y">>

\* C26 as stated: a session that returns True from its last statement has
\* had its final compilation produce the PDF
C26_TrueOnlyIfFinalPassProduced ==
    (pc = "done" /\ exit = "final" /\ result = TRUE) => pdf_produced

\* the cached client, when there is one, was built for _current_model
CacheConsistent ==
    IF client = NoClient
    THEN current_model = <<"None">> /\ built_for = <<>>
    ELSE /\ built_for # <<>>
         /\ built_for[Len(built_for)] = current_model
         /\ client.base_url = Family(current_model)

\* C27: after every step the cached client is the one built for the
\* recorded model; a call that fails in the client setup leaves the client
\* and the recorded model as they were, and a construction records the
\* model it was made for
C27_CacheConsistent ==
    [][ /\ CacheConsistent'
        /\ (q_pc = "idle" /\ q_pc' = "raised")
              => (client' = client /\ current_model' = current_model)
        /\ Len(built_for') > Len(built_for)
              => /\ current_model' = model'
                 /\ client'.base_url = Family(model')
                 /\ q_pc' = "call" ]_vars

C27_Witness ==
    /\ q_pc = "raised"
    /\ q_error = "ValueError"
    /\ queries = 2
    /\ model = <<"deepseek", "-chat">>
    /\ current_model = <<"gpt-4o">>
    /\ client.base_url = "openai"
    /\ built_for = << <<"gpt-4o">> >>

\* C28 as stated: the client a session reads at its call site is the one its
\* own setup selected, a client of the provider family of its own model
C28_OwnClientAtCallSite ==
    \A t \in Sessions :
        t_pc[t] = "called" => t_used[t].base_url = Family(SessionModel(t))

\* C30 as stated: whichever sections failed, main has attempted every
\* section and has written the combined document when it ends
C30_FailureNeverAborts ==
    w_pc = "done" =>
        /\ w_idx = Len(SectionOrder) + 1
        /\ w_exit = "written"
        /\ w_document = sections["header"] \o Joined(2)

\* C29 as stated: every call of perform_graph_abstract ends by returning a
\* flag, and it never issues more than n_reflections critique queries
C29_ReturnsFlag ==
    /\ <>(pc = "done" /\ exit # "escaped")
    /\ [](llm_calls <= n_reflections + 1)

\* what does hold: every call ends, by a return or by the escaping exception
C29_Ends == <>(pc = "done")

====
